---- MODULE Spec2Model ----
(***************************************************************************)
(* Model of full_file.py: the two chat tabs (pdf_chat, csv_chat), the      *)
(* PPT tool's button flow (ppt_from_pdf) and its regex slide parser.       *)
(***************************************************************************)
EXTENDS Integers, Sequences, FiniteSets, TLC

(* ------------------------------ bounds -------------------------------- *)
\* a prompt is entered only while the messages list is shorter than this
MaxMsgs == 2
\* number of genai.upload_file calls of one UI session
MaxUploads == 2
\* the poll counter saturates here (the loop itself is not bounded)
MaxPolls == 2
\* pieces a generated slide structure is assembled from
MaxChunks == 3

(* ----------------------------- value sets ----------------------------- *)
None == 0
Tabs == {"pdf_chat", "csv_chat"}
\* files the user may put in a file_uploader
Files == {1, 2}
Prompts == {"p1", "p2"}
Replies == {"r1"}
\* file.state.name values of the remote service
Statuses == {"PROCESSING", "ACTIVE", "FAILED"}
NoFile == [name |-> None, state |-> "NONE"]

VARIABLES
    session,        \* st.session_state: tab key -> dict (absent until first run)
    pc,             \* position of the running chat handler ("idle": none runs)
    page,           \* the tab whose handler runs
    uploaded_file,  \* st.file_uploader value of this run
    prompt,         \* st.chat_input value of this run
    file,           \* local `file` of the handler
    svc_state,      \* status the remote service holds for the uploaded file
    polls,          \* genai.get_file calls of this run (saturating)
    error_banner,   \* st.error shown in this run (lines 69, 126)
    turn_error,     \* "Error: ..." markdown shown in this run (lines 85, 146)
    raised,         \* the handler run ended in an uncaught exception
    sent_to,        \* chat handle send_message was called on in this run
    upload_runs     \* tab -> number of genai.upload_file calls made for the tab

chatVars == <<session, pc, page, uploaded_file, prompt, file, svc_state, polls,
              error_banner, turn_error, raised, sent_to, upload_runs>>

VARIABLES
    pdf_file,        \* st.file_uploader value of the PPT tool
    text,            \* text extracted from the PDF in this run ("" when none)
    ppt_title,       \* st.text_input value
    click,           \* the button whose click caused this run ("none": another widget)
    gs_shown,        \* the Generate Slides button was rendered in the last run
    gp_shown,        \* the Generate PowerPoint button was rendered in the last run
    slide_structure, \* model.generate_content(prompt).text, a sequence of characters
    gen_chunks       \* the pieces the generated text was assembled from

pptVars == <<pdf_file, text, ppt_title, click, gs_shown, gp_shown,
             slide_structure, gen_chunks>>

VARIABLES
    ppc,             \* position in the render block of lines 199-235
    slides,          \* re.split result (line 207)
    headers,         \* re.findall result (line 208)
    i,               \* loop index of line 209 (0-based, as in the code)
    contents,        \* the `content` of each loop iteration so far
    prs,             \* the presentation: its slides, in order
    download_offered \* st.download_button was rendered (line 230)

parseVars == <<ppc, slides, headers, i, contents, prs, download_offered>>

vars == <<chatVars, pptVars, parseVars>>

(* ------------------------- session dictionaries ----------------------- *)
\* lines 41-46 and 94-100
InitialState(t) ==
    IF t = "csv_chat"
    THEN [messages |-> << >>, file_processed |-> FALSE, gemini_file |-> NoFile,
          chat_session |-> None, df |-> None]
    ELSE [messages |-> << >>, file_processed |-> FALSE, gemini_file |-> NoFile,
          chat_session |-> None]

Greeting(t) ==
    IF t = "csv_chat" THEN "Hi! I have loaded your CSV file."
    ELSE "Hi! Ready to help with your PDF."

Msg(role, content) == [role |-> role, content |-> content]

\* list.append of lines 76, 86, 137, 147
AppendMsg_Swapped(msgs, role, content) == <<Msg(role, content)>> \o msgs
AppendMsg(msgs, role, content) == Append(msgs, Msg(role, content))

\* the guard of lines 48 and 102
NeedsProcessing_Always(s, f) == f # None
NeedsProcessing(s, f) == f # None /\ ~s.file_processed

\* the loop condition of lines 54 and 110
LoopCond_Never(st) == FALSE
LoopCond(st) == st = "PROCESSING"

\* dict.update of lines 61-66 and 117-123; the chat handle is named after its file
Processed(t, s, fl, f) ==
    IF t = "csv_chat"
    THEN [s EXCEPT !.file_processed = TRUE, !.gemini_file = fl,
                   !.chat_session = fl.name, !.df = f,
                   !.messages = <<Msg("assistant", Greeting(t))>>]
    ELSE [s EXCEPT !.file_processed = TRUE, !.gemini_file = fl,
                   !.chat_session = fl.name,
                   !.messages = <<Msg("assistant", Greeting(t))>>]

\* the except branch of lines 68-69 and 125-126: st.error only
ExceptBranch_MarksProcessed(t) == [session EXCEPT ![t].file_processed = TRUE]
ExceptBranch(t) == session

Min(a, b) == IF a < b THEN a ELSE b

(* ------------------------------- Init --------------------------------- *)
ChatInit ==
    /\ session = << >>
    /\ pc = "idle"
    /\ page = "pdf_chat"
    /\ uploaded_file = None
    /\ prompt = "none"
    /\ file = NoFile
    /\ svc_state = "NONE"
    /\ polls = 0
    /\ error_banner = FALSE
    /\ turn_error = FALSE
    /\ raised = FALSE
    /\ sent_to = None
    /\ upload_runs = [t \in Tabs |-> 0]

PptInit ==
    /\ pdf_file = None
    /\ text = ""
    /\ ppt_title = "Business Report"
    /\ click = "none"
    /\ gs_shown = FALSE
    /\ gp_shown = FALSE
    /\ slide_structure = << >>
    /\ gen_chunks = << >>

ParseInit ==
    /\ ppc = "idle"
    /\ slides = << >>
    /\ headers = << >>
    /\ i = 0
    /\ contents = << >>
    /\ prs = << >>
    /\ download_offered = FALSE

Init == ChatInit /\ PptInit /\ ParseInit

(* --------------------------- chat handlers ---------------------------- *)
MsgsOf(t) == IF t \in DOMAIN session THEN session[t].messages ELSE << >>

TotalUploads == upload_runs["pdf_chat"] + upload_runs["csv_chat"]

\* A user interaction starts a handler run: lines 36-48 / 89-102.
BeginRun(t, f, p) ==
    /\ pc = "idle"
    /\ p # "none" => Len(MsgsOf(t)) < MaxMsgs
    /\ LET s == IF t \in DOMAIN session THEN session[t] ELSE InitialState(t)
       IN /\ session' = (t :> s) @@ session
          /\ pc' = IF NeedsProcessing(s, f) THEN "upload" ELSE "turn"
    /\ page' = t
    /\ uploaded_file' = f
    /\ prompt' = p
    /\ file' = NoFile
    /\ svc_state' = "NONE"
    /\ polls' = 0
    /\ error_banner' = FALSE
    /\ turn_error' = FALSE
    /\ raised' = FALSE
    /\ sent_to' = None
    /\ UNCHANGED <<upload_runs, pptVars, parseVars>>

\* lines 51-53 / 105-109 succeed: the service returns a file in some status
UploadFile(st) ==
    /\ pc = "upload"
    /\ TotalUploads < MaxUploads
    /\ upload_runs' = [upload_runs EXCEPT ![page] = @ + 1]
    /\ file' = [name |-> TotalUploads + 1, state |-> st]
    /\ svc_state' = st
    /\ pc' = "poll"
    /\ UNCHANGED <<session, page, uploaded_file, prompt, polls, error_banner,
                   turn_error, raised, sent_to, pptVars, parseVars>>

\* lines 51-53 / 105-109 raise (file write, pd.read_csv, upload_file)
UploadRaise ==
    /\ pc = "upload"
    /\ session' = ExceptBranch(page)
    /\ error_banner' = TRUE
    /\ pc' = "turn"
    /\ UNCHANGED <<page, uploaded_file, prompt, file, svc_state, polls,
                   turn_error, raised, sent_to, upload_runs, pptVars, parseVars>>

\* the remote service finishes processing the file while the handler sleeps
ServiceFinishes(st) ==
    /\ pc = "poll"
    /\ svc_state = "PROCESSING"
    /\ st # "PROCESSING"
    /\ svc_state' = st
    /\ UNCHANGED <<session, pc, page, uploaded_file, prompt, file, polls,
                   error_banner, turn_error, raised, sent_to, upload_runs,
                   pptVars, parseVars>>

\* one iteration of the loop of lines 54-56 / 110-112
PollFile ==
    /\ pc = "poll"
    /\ LoopCond(file.state)
    /\ file' = [file EXCEPT !.state = svc_state]
    /\ polls' = Min(polls + 1, MaxPolls)
    /\ UNCHANGED <<session, pc, page, uploaded_file, prompt, svc_state,
                   error_banner, turn_error, raised, sent_to, upload_runs,
                   pptVars, parseVars>>

\* genai.get_file raises inside the loop
PollRaise ==
    /\ pc = "poll"
    /\ LoopCond(file.state)
    /\ session' = ExceptBranch(page)
    /\ error_banner' = TRUE
    /\ pc' = "turn"
    /\ file' = NoFile
    /\ svc_state' = "NONE"
    /\ polls' = 0
    /\ UNCHANGED <<page, uploaded_file, prompt, turn_error, raised, sent_to,
                   upload_runs, pptVars, parseVars>>

\* lines 57-67 / 113-124: the loop is left, the chat is created, the state is
\* updated and st.rerun() ends the run (its locals are gone)
StartChat ==
    /\ pc = "poll"
    /\ ~LoopCond(file.state)
    /\ session' = [session EXCEPT ![page] = Processed(page, @, file, uploaded_file)]
    /\ pc' = "idle"
    /\ prompt' = "none"
    /\ file' = NoFile
    /\ svc_state' = "NONE"
    /\ polls' = 0
    /\ UNCHANGED <<page, uploaded_file, error_banner, turn_error, raised,
                   sent_to, upload_runs, pptVars, parseVars>>

\* start_chat raises
StartChatRaise ==
    /\ pc = "poll"
    /\ ~LoopCond(file.state)
    /\ session' = ExceptBranch(page)
    /\ error_banner' = TRUE
    /\ pc' = "turn"
    /\ file' = NoFile
    /\ svc_state' = "NONE"
    /\ polls' = 0
    /\ UNCHANGED <<page, uploaded_file, prompt, turn_error, raised, sent_to,
                   upload_runs, pptVars, parseVars>>

\* lines 71-75 / 132-136 with no prompt entered
TurnNoPrompt ==
    /\ pc = "turn"
    /\ prompt = "none"
    /\ pc' = "idle"
    /\ prompt' = "none"
    /\ UNCHANGED <<session, page, uploaded_file, file, svc_state, polls,
                   error_banner, turn_error, raised, sent_to, upload_runs,
                   pptVars, parseVars>>

\* lines 75-86 / 136-147, send_message returns a reply
TurnReply(r) ==
    /\ pc = "turn"
    /\ prompt # "none"
    /\ session[page].chat_session # None
    /\ LET m1 == AppendMsg(session[page].messages, "user", prompt)
           m2 == AppendMsg(m1, "assistant", r)
       IN session' = [session EXCEPT ![page].messages = m2]
    /\ sent_to' = session[page].chat_session
    /\ pc' = "idle"
    /\ prompt' = "none"
    /\ UNCHANGED <<page, uploaded_file, file, svc_state, polls,
                   error_banner, turn_error, raised, upload_runs, pptVars, parseVars>>

\* lines 75-86 / 136-147, send_message raises (always so when chat_session is
\* None): the except branch shows the error, then line 86 / 147 reads the
\* unbound local `response` and the run ends in an UnboundLocalError
TurnFails ==
    /\ pc = "turn"
    /\ prompt # "none"
    /\ LET m1 == AppendMsg(session[page].messages, "user", prompt)
       IN session' = [session EXCEPT ![page].messages = m1]
    /\ sent_to' = session[page].chat_session
    /\ turn_error' = TRUE
    /\ raised' = TRUE
    /\ pc' = "idle"
    /\ prompt' = "none"
    /\ UNCHANGED <<page, uploaded_file, file, svc_state, polls,
                   error_banner, upload_runs, pptVars, parseVars>>

HandlerStep ==
    \/ \E st \in Statuses : UploadFile(st)
    \/ UploadRaise
    \/ PollFile
    \/ PollRaise
    \/ StartChat
    \/ StartChatRaise
    \/ TurnNoPrompt
    \/ \E r \in Replies : TurnReply(r)
    \/ TurnFails

Next ==
    \/ \E t \in Tabs, f \in Files \cup {None}, p \in Prompts \cup {"none"} :
          BeginRun(t, f, p)
    \/ \E st \in Statuses : ServiceFinishes(st)
    \/ HandlerStep

Spec == Init /\ [][Next]_vars

(* ------------------------- generated slide text ----------------------- *)
\* Texts model.generate_content may return (line 195), as character sequences
\* assembled from these pieces.
HeaderOne ==
    <<"*", "*", "S", "l", "i", "d", "e", " ", "1", ":", " ", "X", "*", "*">>
HeaderTwo ==
    <<"*", "*", "S", "l", "i", "d", "e", " ", "2", ":", " ", "Y", "*", "*">>
TitleA ==
    <<"\n", "*", " ", "*", "*", "T", "i", "t", "l", "e", ":", "*", "*", " ", "\"", "A", "\"">>
TitleC ==
    <<"\n", "*", " ", "*", "*", "T", "i", "t", "l", "e", ":", "*", "*", " ", "\"", "C", "\"">>
BulletOne ==
    <<"\n", "*", " ", "B", "1">>
BulletTwo ==
    <<"\n", "*", " ", "B", "2">>
NewLine ==
    <<"\n">>
OpenHeader ==
    <<"*", "*", "S", "l", "i", "d", "e", " ", "3", ":">>
Plain ==
    <<"I", "n", "t", "r", "o">>

Chunk(c) ==
    CASE c = 1 -> HeaderOne
      [] c = 2 -> HeaderTwo
      [] c = 3 -> TitleA
      [] c = 4 -> TitleC
      [] c = 5 -> BulletOne
      [] c = 6 -> BulletTwo
      [] c = 7 -> NewLine
      [] c = 8 -> OpenHeader
      [] OTHER -> Plain

ChunkIds == 1..9

RECURSIVE Flatten(_)
Flatten(cs) == IF cs = << >> THEN << >> ELSE Chunk(Head(cs)) \o Flatten(Tail(cs))

\* the input of the spec's example (section 8, property 5)
ExampleChunks == <<1, 3, 5, 6, 7, 2, 4>>

ChunkSeqs ==
    UNION {[1..n -> ChunkIds] : n \in 0..MaxChunks} \cup {ExampleChunks}

(* --------------------------- regex matching --------------------------- *)
SlideLit == <<"*", "*", "S", "l", "i", "d", "e", " ">>
TitleLit == <<"*", "*", "T", "i", "t", "l", "e", ":", "*", "*">>
StarsLit == <<"*", "*">>
SlideWord == <<"S", "l", "i", "d", "e", " ">>

\* \s and \d of Python's re on str
IsSpace(c) == c \in {" ", "\n", "\t", "\r", "\f"}
IsDigit(c) == c \in {"0", "1", "2", "3", "4", "5", "6", "7", "8", "9"}

\* the literal lit occurs in s at position p
HasAt(s, p, lit) ==
    /\ p >= 1
    /\ p + Len(lit) - 1 <= Len(s)
    /\ SubSeq(s, p, p + Len(lit) - 1) = lit

\* last position of the longest run of digits / whitespace / non-newline
\* characters of s that starts at p (p - 1 when the run is empty)
RECURSIVE DigitsEnd(_, _)
DigitsEnd(s, p) ==
    IF p <= Len(s) /\ IsDigit(s[p]) THEN DigitsEnd(s, p + 1) ELSE p - 1

RECURSIVE SpaceEnd(_, _)
SpaceEnd(s, p) ==
    IF p <= Len(s) /\ IsSpace(s[p]) THEN SpaceEnd(s, p + 1) ELSE p - 1

RECURSIVE LineEnd(_, _)
LineEnd(s, p) ==
    IF p <= Len(s) /\ s[p] # "\n" THEN LineEnd(s, p + 1) ELSE p - 1

\* `.*?\*\*` from p: the end of the first "**" reached over non-newline
\* characters, 0 when there is none
RECURSIVE LazyClose(_, _)
LazyClose(s, p) ==
    IF HasAt(s, p, StarsLit) THEN p + 1
    ELSE IF p > Len(s) \/ s[p] = "\n" THEN 0
    ELSE LazyClose(s, p + 1)

\* r'\*\*Slide \d+:.*?\*\*' matched at p: the match's last position, 0 for none
HeaderEnd(s, p) ==
    IF ~HasAt(s, p, SlideLit) THEN 0
    ELSE LET d == p + Len(SlideLit)
             q == DigitsEnd(s, d)
         IN IF q >= d /\ HasAt(s, q + 1, <<":">>) THEN LazyClose(s, q + 2) ELSE 0

\* the non-overlapping matches of the header pattern, left to right, from p
RECURSIVE HeaderSpans(_, _)
HeaderSpans(s, p) ==
    IF p > Len(s) THEN << >>
    ELSE LET e == HeaderEnd(s, p)
         IN IF e > 0 THEN << <<p, e>> >> \o HeaderSpans(s, e + 1)
            ELSE HeaderSpans(s, p + 1)

\* re.split(pattern, s), line 207: the text between the matches
ReSplit(s) ==
    LET sp == HeaderSpans(s, 1)
        n  == Len(sp)
    IN [j \in 1..(n + 1) |->
          SubSeq(s, IF j = 1 THEN 1 ELSE sp[j - 1][2] + 1,
                    IF j = n + 1 THEN Len(s) ELSE sp[j][1] - 1)]

\* re.findall(pattern, s), line 208: the matched texts
ReFindall(s) ==
    LET sp == HeaderSpans(s, 1)
    IN [j \in 1..Len(sp) |-> SubSeq(s, sp[j][1], sp[j][2])]

\* str.strip()
RECURSIVE LStrip(_)
LStrip(s) == IF s # << >> /\ IsSpace(Head(s)) THEN LStrip(Tail(s)) ELSE s

RECURSIVE RStrip(_)
RStrip(s) ==
    IF s # << >> /\ IsSpace(s[Len(s)]) THEN RStrip(SubSeq(s, 1, Len(s) - 1)) ELSE s

Strip(s) == LStrip(RStrip(s))

\* re.search(r'\*\*Title:\*\*\s*(.*)', content), line 211: the position of the
\* first "**Title:**", 0 for no match
RECURSIVE TitleAt(_, _)
TitleAt(s, p) ==
    IF p > Len(s) THEN 0
    ELSE IF HasAt(s, p, TitleLit) THEN p
    ELSE TitleAt(s, p + 1)

\* group(1) of that match: what follows the whitespace, up to the line's end
TitleGroup(s, p) ==
    LET q == SpaceEnd(s, p + Len(TitleLit))
    IN SubSeq(s, q + 1, LineEnd(s, q + 1))

\* str(n) for n >= 0
RECURSIVE IntToChars(_)
IntToChars(n) ==
    LET d == <<"0", "1", "2", "3", "4", "5", "6", "7", "8", "9">>
    IN IF n < 10 THEN <<d[n + 1]>> ELSE IntToChars(n \div 10) \o <<d[(n % 10) + 1]>>

\* line 212
SlideTitle(content, idx) ==
    LET p == TitleAt(content, 1)
    IN IF p > 0 THEN Strip(TitleGroup(content, p))
       ELSE SlideWord \o IntToChars(idx + 2)

\* re.findall(r'\*\s+(.*)', content), line 213, from p
RECURSIVE Bullets(_, _)
Bullets(s, p) ==
    IF p > Len(s) THEN << >>
    ELSE IF s[p] = "*" /\ p + 1 <= Len(s) /\ IsSpace(s[p + 1])
    THEN LET q == SpaceEnd(s, p + 1)
             e == LineEnd(s, q + 1)
         IN <<SubSeq(s, q + 1, e)>> \o Bullets(s, e + 1)
    ELSE Bullets(s, p + 1)

\* line 210, idx counting from 0 as in the code
SlideContent_Own(sl, idx) == IF idx < Len(sl) THEN sl[idx + 1] ELSE << >>
SlideContent(sl, idx) == IF idx + 1 < Len(sl) THEN sl[idx + 2] ELSE << >>

(* --------------------------- the render block ------------------------- *)
\* lines 200-208: the presentation with its title slide, then split and findall
RenderStart ==
    /\ ppc = "render"
    /\ prs' = <<[layout |-> 0, title |-> ppt_title]>>
    /\ slides' = ReSplit(slide_structure)
    /\ headers' = ReFindall(slide_structure)
    /\ i' = 0
    /\ contents' = << >>
    /\ ppc' = "loop"
    /\ UNCHANGED <<download_offered, chatVars, pptVars>>

\* one iteration of the loop of lines 209-224
RenderSlide ==
    /\ ppc = "loop"
    /\ i < Len(headers)
    /\ LET content == SlideContent(slides, i)
       IN /\ prs' = Append(prs, [layout |-> 1,
                                 title |-> SlideTitle(content, i),
                                 bullets |-> Bullets(content, 1)])
          /\ contents' = Append(contents, content)
    /\ i' = i + 1
    /\ UNCHANGED <<ppc, slides, headers, download_offered, chatVars, pptVars>>

\* lines 226-235: save and offer the download
RenderSave ==
    /\ ppc = "loop"
    /\ i >= Len(headers)
    /\ download_offered' = TRUE
    /\ ppc' = "done"
    /\ UNCHANGED <<slides, headers, i, contents, prs, chatVars, pptVars>>

NextParse == RenderStart \/ RenderSlide \/ RenderSave

\* the render block run on each text the model may generate
InitParse ==
    /\ ChatInit
    /\ pdf_file = 1
    /\ text = "content"
    /\ ppt_title = "Business Report"
    /\ click = "none"
    /\ gs_shown = FALSE
    /\ gp_shown = FALSE
    /\ gen_chunks \in ChunkSeqs
    /\ slide_structure = Flatten(gen_chunks)
    /\ ppc = "render"
    /\ slides = << >>
    /\ headers = << >>
    /\ i = 0
    /\ contents = << >>
    /\ prs = << >>
    /\ download_offered = FALSE

SpecParse == InitParse /\ [][NextParse]_vars

(* ------------------------------ PPT tool ------------------------------ *)
Titles == {"Business Report", "Roadmap"}

\* lines 157-171: PDF 1 has a text layer, PDF 2 yields no text
ExtractText(f) == IF f = 1 THEN "content" ELSE ""

\* One run of ppt_from_pdf (lines 150-235) with the widget values of the run:
\* the file, the title, the button whose click caused the run (a button reads
\* True only in that run) and the text the model generates.
PptRun(f, title, clk, chunks) ==
    /\ ppc = "idle"
    /\ LET txt   == IF f = None THEN "" ELSE ExtractText(f)
           shown == f # None /\ txt # ""        \* lines 155, 172-178 are passed
           gs    == shown /\ clk = "GS"         \* line 178
           gp    == gs /\ clk = "GP"            \* line 198, inside the block of 178
       IN /\ text' = txt
          /\ ppt_title' = IF shown THEN title ELSE ppt_title
          /\ gs_shown' = shown
          /\ gp_shown' = gs
          /\ slide_structure' = IF gs THEN Flatten(chunks) ELSE << >>
          /\ gen_chunks' = IF gs THEN chunks ELSE << >>
          /\ ppc' = IF gp THEN "render" ELSE "idle"
    /\ pdf_file' = f
    /\ click' = clk
    /\ UNCHANGED <<slides, headers, i, contents, prs, download_offered, chatVars>>

\* the user puts a file in the uploader, or removes it
PptChooseFile(f) ==
    /\ f # pdf_file
    /\ PptRun(f, ppt_title, "none", << >>)

\* the user edits the title input (rendered at line 176)
PptEditTitle(title) ==
    /\ gs_shown
    /\ title # ppt_title
    /\ PptRun(pdf_file, title, "none", << >>)

\* the user clicks a button the last run rendered
ClickGenerateSlides(chunks) ==
    /\ gs_shown
    /\ PptRun(pdf_file, ppt_title, "GS", chunks)

ClickGeneratePowerPoint ==
    /\ gp_shown
    /\ PptRun(pdf_file, ppt_title, "GP", << >>)

NextPpt ==
    \/ \E f \in Files \cup {None} : PptChooseFile(f)
    \/ \E title \in Titles : PptEditTitle(title)
    \/ \E chunks \in ChunkSeqs : ClickGenerateSlides(chunks)
    \/ ClickGeneratePowerPoint

SpecPpt == Init /\ [][NextPpt]_vars

\* the poll loop and the chat creation run on once started
SpecFair ==
    /\ Spec
    /\ WF_vars(PollFile)
    /\ WF_vars(StartChat \/ StartChatRaise)

(* ------------------------------- claims ------------------------------- *)
IsPrefix(a, b) == Len(a) <= Len(b) /\ SubSeq(b, 1, Len(a)) = a

Tab(t) == session[t]
TabNext(t) == session'[t]

\* C1: in every step the old messages list of each chat tab is a prefix of the
\* new one (messages only grow by appending).
C1_AppendOnly ==
    [][\A t \in DOMAIN session : IsPrefix(Tab(t).messages, TabNext(t).messages)]_vars

\* C2: a turn whose send_message fails ends without raising, with the messages
\* list extended by the user's prompt and one assistant message (the error
\* text), the earlier messages unchanged.
C2_FailureCaught ==
    [][(pc = "turn" /\ turn_error') =>
          /\ ~raised'
          /\ Len(TabNext(page).messages) = Len(Tab(page).messages) + 2
          /\ IsPrefix(Tab(page).messages \o <<Msg("user", prompt)>>,
                      TabNext(page).messages)
          /\ TabNext(page).messages[Len(TabNext(page).messages)].role = "assistant"]_vars

\* C3: with a chat handle established, a turn whose remote call succeeds turns
\* messages m into m followed by exactly [user: prompt, assistant: reply].
C3_SuccessfulTurn ==
    [][(pc = "turn" /\ prompt # "none" /\ Tab(page).chat_session # None
          /\ pc' = "idle" /\ ~turn_error') =>
          \E r \in Replies :
              TabNext(page).messages =
                  Tab(page).messages \o <<Msg("user", prompt), Msg("assistant", r)>>]_vars

\* C3 witness: a run on an established chat handle ended without error, its
\* messages being the greeting, the prompt and the reply.
C3_Witness ==
    /\ pc = "idle"
    /\ page \in DOMAIN session
    /\ sent_to # None
    /\ ~turn_error
    /\ ~raised
    /\ Len(Tab(page).messages) = 3
    /\ Tab(page).messages[2].role = "user"
    /\ Tab(page).messages[3] = Msg("assistant", "r1")

\* C4: a step of file processing that raises leaves the tab's session state
\* as it was and un-initialized, so that a run with a file processes it again.
C4_FailureLeavesUninitialized ==
    [][(pc \in {"upload", "poll"} /\ error_banner') =>
          /\ session' = session
          /\ ~TabNext(page).file_processed
          /\ TabNext(page).gemini_file = NoFile
          /\ TabNext(page).chat_session = None
          /\ \A f \in Files : NeedsProcessing(TabNext(page), f)]_vars

\* C4 witness: the processing of a file failed after the upload itself had
\* succeeded, with messages already in the tab.
C4_Witness ==
    /\ error_banner
    /\ pc = "turn"
    /\ uploaded_file # None
    /\ upload_runs[page] > 0
    /\ Tab(page).messages # << >>
    /\ ~Tab(page).file_processed

\* C5: whenever a tab has file_processed set, the stored file's last polled
\* status is the ready status.
C5_StoredFileReady ==
    \A t \in DOMAIN session :
        Tab(t).file_processed => Tab(t).gemini_file.state = "ACTIVE"

\* C8: the run caused by a click on Generate PowerPoint (possible only after a
\* click on Generate Slides) reaches the render block.
C8_ClickReachesRender ==
    click = "GP" => (ppc # "idle" \/ download_offered)

\* C9: once file_processed is true, no step uploads for the tab again or changes
\* its gemini_file or chat_session, and a prompt is sent to that chat handle.
C9_ProcessedOnce ==
    [][\A t \in DOMAIN session :
          Tab(t).file_processed =>
              /\ TabNext(t).file_processed
              /\ TabNext(t).gemini_file = Tab(t).gemini_file
              /\ TabNext(t).chat_session = Tab(t).chat_session
              /\ upload_runs'[t] = upload_runs[t]
              /\ (page = t /\ pc = "turn" /\ prompt # "none")
                    => sent_to' = Tab(t).chat_session]_vars

\* C9 witness: the CSV tab, already processed, ran with a different file in the
\* uploader and sent the prompt to its chat handle.
C9_Witness ==
    /\ pc = "idle"
    /\ page = "csv_chat"
    /\ page \in DOMAIN session
    /\ Tab(page).file_processed
    /\ uploaded_file # None
    /\ uploaded_file # Tab(page).df
    /\ sent_to = Tab(page).chat_session
    /\ upload_runs[page] = 1

\* C10: the poll loop is left (other than by an exception) only at a polled
\* status that is not PROCESSING and at the first such status; file_processed
\* is set only then; and once the service holds a non-PROCESSING status the
\* loop is eventually left.
C10_PollLoop ==
    /\ [][(pc = "poll" /\ pc' # "poll" /\ ~error_banner')
             => file.state # "PROCESSING"]_vars
    /\ [][(pc = "poll" /\ file.state # "PROCESSING") => pc' # "poll"]_vars
    /\ [][(pc = "poll" /\ file.state = "PROCESSING" /\ pc' = "poll") =>
             \A t \in DOMAIN session : TabNext(t).file_processed = Tab(t).file_processed]_vars
    /\ (pc = "poll" /\ svc_state # "PROCESSING") ~> (pc # "poll")

\* C10 witness: the loop still polls after MaxPolls attempts
C10_Witness ==
    /\ pc = "poll"
    /\ polls = MaxPolls
    /\ file.state = "PROCESSING"
    /\ svc_state # "PROCESSING"

(* --------------------------- parser claims ---------------------------- *)
MarkerIds == {1, 2}
\* pieces that hold a complete header or none of one
Clean(cs) == \A j \in 1..Len(cs) : cs[j] # 8

RECURSIVE ChunkHeaders(_)
ChunkHeaders(cs) ==
    IF cs = << >> THEN << >>
    ELSE IF Head(cs) \in MarkerIds THEN <<Chunk(Head(cs))>> \o ChunkHeaders(Tail(cs))
    ELSE ChunkHeaders(Tail(cs))

\* the text that follows each header piece, up to the next header piece
RECURSIVE ChunkBodies(_, _)
ChunkBodies(cs, acc) ==
    IF cs = << >> THEN acc
    ELSE IF Head(cs) \in MarkerIds THEN ChunkBodies(Tail(cs), Append(acc, << >>))
    ELSE IF acc = << >> THEN ChunkBodies(Tail(cs), acc)
    ELSE ChunkBodies(Tail(cs), [acc EXCEPT ![Len(acc)] = @ \o Chunk(Head(cs))])

\* headers and bodies put back in order after the preamble
RECURSIVE Interleave(_, _)
Interleave(hs, bs) ==
    IF hs = << >> THEN << >>
    ELSE Head(hs) \o Head(bs) \o Interleave(Tail(hs), Tail(bs))

\* C6: for a text with k slide markers the loop never needs a missing fragment,
\* yields k records in marker order, each from the fragment after its own
\* marker, and the presentation holds the title slide plus those k slides.
C6_OneRecordPerMarker ==
    /\ ppc = "loop" => Len(slides) = Len(headers) + 1
    /\ ppc = "done" =>
          /\ Len(prs) = 1 + Len(headers)
          /\ Len(contents) = Len(headers)
          /\ slides[1] \o Interleave(headers, contents) = slide_structure
          /\ \A j \in 1..Len(contents) :
                /\ prs[j + 1].title = SlideTitle(contents[j], j - 1)
                /\ prs[j + 1].bullets = Bullets(contents[j], 1)
          /\ Clean(gen_chunks) =>
                /\ headers = ChunkHeaders(gen_chunks)
                /\ contents = ChunkBodies(gen_chunks, << >>)

\* C6 witness: two markers with different bodies were rendered
C6_Witness ==
    /\ ppc = "done"
    /\ Len(headers) = 2
    /\ Len(prs) = 3
    /\ contents[1] # << >>
    /\ contents[1] # contents[2]

\* C7: the example text yields the records [A, [B1, B2]] and [C, []].
C7_Example ==
    (ppc = "done" /\ gen_chunks = ExampleChunks) =>
        /\ Len(prs) = 3
        /\ prs[2].title = <<"A">>
        /\ prs[2].bullets = << <<"B", "1">>, <<"B", "2">> >>
        /\ prs[3].title = <<"C">>
        /\ prs[3].bullets = << >>

====
